---- MODULE Spec2Model ----
(***************************************************************************)
(* Model of canfd_load.py: the STM32 CAN-FD bootloader client.  One run of  *)
(* main() is a sequential process; every bus.send and every bus.recv is one *)
(* step, and the bus traffic is recorded in `log` in the order it happens.  *)
(* Addresses of the model stay below 2^31.                                  *)
(***************************************************************************)
EXTENDS Integers, Sequences, FiniteSets, TLC

\* ------------------------------------------------------------------ bounds
MaxLen == 2049         \* longest firmware image of the model (two pages, nine blocks)
MaxCommands == 2       \* largest num_commands byte the target announces

\* ------------------------------------------------------- program constants
ACK == 121             \* 0x79
CMD_GET == 0           \* COMMANDS['get']
CMD_GO == 33           \* COMMANDS['go'] 0x21
CMD_WRITE_MEMORY == 49 \* COMMANDS['write_memory'] 0x31
CMD_ERASE_MEMORY == 68 \* COMMANDS['erase_memory'] 0x44
ARBITRATION_ID == 273  \* 0x111
BLOCK_SIZE == 256
CHUNK_SIZE == 64
PAGE_SIZE == 2048
DEFAULT_ADDRESS == 134217728  \* 0x08000000

\* ------------------------------------------------------------------ inputs
Lengths == {0, 1, 64, 65, 256, 257, 513, MaxLen}
StartAddresses == {DEFAULT_ADDRESS, DEFAULT_ADDRESS + PAGE_SIZE}
\* firmware_data = f.read(): the byte at 0-based offset j of the file
FileByte(j) == (37 * j + 11) % 256
ReadFile(L) == [j \in 1..L |-> FileByte(j - 1)]

\* bus.recv(timeout): None on timeout, otherwise a message with data bytes
None == [present |-> FALSE, data |-> <<>>]
Received(d) == [present |-> TRUE, data |-> d]
\* what the target may answer where an acknowledge is expected
\* (a timeout, a frame without data, ACK, and the bootloader's NACK byte 0x1F)
AckResponses == {None, Received(<<>>), Received(<<ACK>>), Received(<<31>>)}
\* what the target may answer where get_command expects the byte count
NumResponses == {None, Received(<<>>)} \cup {Received(<<n>>) : n \in 0..MaxCommands}
\* ... the version byte, and one supported opcode
VersionResponses == {None, Received(<<>>), Received(<<16>>), Received(<<ACK>>)}
CommandResponses == {None, Received(<<>>), Received(<<CMD_GET>>), Received(<<CMD_WRITE_MEMORY>>)}

\* ------------------------------------------------------------------- state
VARIABLES
    pc,             \* position of the run
    firmware_data,  \* upload_firmware: the bytes read from the file
    start_address,  \* args.address
    log,            \* bus traffic: sends and receives in order
    get_result,     \* what get_command returned: "pending", "None" or "tuple"
    num_commands,   \* get_command local
    version,        \* get_command local (-1 before it is read)
    commands,       \* get_command local
    i,              \* upload_firmware loop offset
    chunks,         \* write_memory local: the 64-byte slices of the block
    ci,             \* write_memory: number of chunks already sent
    write_results,  \* return value of every completed write_memory call
    upload_result,  \* "pending", "True" or "False"
    stdout,         \* printed lines
    exception       \* "none" or the exception that ended the run

vars == <<pc, firmware_data, start_address, log, get_result, num_commands, version,
          commands, i, chunks, ci, write_results, upload_result, stdout, exception>>

\* ----------------------------------------------------------- pure helpers
Min(a, b) == IF a < b THEN a ELSE b

\* data[a:b] of Python, 0-based half-open, clipped to the length
Slice(s, a, b) == SubSeq(s, a + 1, Min(b, Len(s)))

\* mutant: the stop value is included, range(0, n + 1, step)
Range_Inclusive(n, step) == {k \in 0..n : k % step = 0}

\* range(0, n, step)
Range(n, step) == {k \in 0..n : k < n /\ k % step = 0}

\* struct.pack('>H', v)
PackH(v) == <<(v \div 256) % 256, v % 256>>

\* mutant: little-endian, struct.pack('<I', v)
PackI_LittleEndian(v) == <<v % 256, (v \div 256) % 256, (v \div 65536) % 256, (v \div 16777216) % 256>>

\* struct.pack('>I', v)
PackI(v) == <<(v \div 16777216) % 256, (v \div 65536) % 256, (v \div 256) % 256, v % 256>>

\* can.Message(arbitration_id=0x111, is_extended_id=False, is_fd=True, bitrate_switch=True, data=data)
Message(data) ==
    [arbitration_id |-> ARBITRATION_ID, is_extended_id |-> FALSE, is_fd |-> TRUE,
     bitrate_switch |-> TRUE, data |-> data]

\* one entry of the bus log: self.bus.send(msg) or self.bus.recv(self.TIMEOUT),
\* tagged with the statement that issued it and, inside the upload loop, its offset i
SendEvent(kind, off, data) ==
    [op |-> "send", kind |-> kind, i |-> off, msg |-> Message(data), response |-> None]
RecvEvent(kind, off, r) ==
    [op |-> "recv", kind |-> kind, i |-> off, msg |-> Message(<<>>), response |-> r]

\* send_message: `response and response.data[0] == 0x79`
IsAck(r) == r.present /\ r.data[1] = ACK

\* response.data[0] raises IndexError on a frame without data
RaisesIndexError(r) == r.present /\ Len(r.data) = 0

\* mutant: rounds up once too often, (len + 2048) // 2048
PagesToErase_OneMore(L) == (L + 2048) \div 2048

\* (len(firmware_data) + 2047) // 2048
PagesToErase(L) == (L + 2047) \div 2048

\* mutant: the two page fields swapped
EraseData_Swapped(start_page, num_pages) == <<CMD_ERASE_MEMORY>> \o PackH(num_pages) \o PackH(start_page)

\* erase_memory: the frame payload
EraseData(start_page, num_pages) == <<CMD_ERASE_MEMORY>> \o PackH(start_page) \o PackH(num_pages)

\* write_memory: cmd_data
WriteCmdData(address, data) == <<CMD_WRITE_MEMORY>> \o PackI(address) \o <<Len(data) - 1>>

\* mutant: the block is sent as one frame
Chunks_Whole(data) == <<data>>

\* mutant: the partial last chunk is dropped
Chunks_NoTail(data) ==
    [k \in 1..(Len(data) \div CHUNK_SIZE) |->
        Slice(data, (k - 1) * CHUNK_SIZE, (k - 1) * CHUNK_SIZE + CHUNK_SIZE)]

\* write_memory: chunks = [data[i:i+64] for i in range(0, len(data), 64)]
Chunks(data) ==
    [k \in 1..Cardinality(Range(Len(data), CHUNK_SIZE)) |->
        Slice(data, (k - 1) * CHUNK_SIZE, (k - 1) * CHUNK_SIZE + CHUNK_SIZE)]

\* go_command: the frame payload
GoData(address) == <<CMD_GO>> \o PackI(address)

\* mutant: the slice ends one byte early
Block_Short(data, off) == Slice(data, off, off + BLOCK_SIZE - 1)

\* upload_firmware: chunk = firmware_data[i:i+256]
Block(data, off) == Slice(data, off, off + BLOCK_SIZE)

\* ------------------------------------------------------------------- Init
Init ==
    /\ pc = "get_send"
    /\ firmware_data \in {ReadFile(L) : L \in Lengths}
    /\ start_address \in StartAddresses
    /\ log = <<>>
    /\ get_result = "pending"
    /\ num_commands = 0
    /\ version = -1
    /\ commands = <<>>
    /\ i = 0
    /\ chunks = <<>>
    /\ ci = 0
    /\ write_results = <<>>
    /\ upload_result = "pending"
    /\ stdout = <<>>
    /\ exception = "none"

\* an uncaught exception ends the run
Raise(e) ==
    /\ pc' = "crashed"
    /\ exception' = e

\* ----------------------------------------------------------- send_message
\* mutant: a data chunk is handed to the bus without waiting for its response
AfterSend_ChunkNoWait(kind) ==
    CASE kind = "get" -> "get_ack"
      [] kind = "erase" -> "erase_ack"
      [] kind = "write_cmd" -> "write_cmd_ack"
      [] kind = "chunk" -> "chunk_loop"
      [] kind = "go" -> "go_ack"

\* send_message lines 26-28: after self.bus.send(msg) the same call goes on to
\* self.bus.recv(self.TIMEOUT); kind names the caller's frame
AfterSend(kind) ==
    CASE kind = "get" -> "get_ack"
      [] kind = "erase" -> "erase_ack"
      [] kind = "write_cmd" -> "write_cmd_ack"
      [] kind = "chunk" -> "chunk_ack"
      [] kind = "go" -> "go_ack"

\* ------------------------------------------------------------ get_command
\* get_command line 34 -> send_message lines 25-26: send the GET frame
GetSend ==
    /\ pc = "get_send"
    /\ log' = Append(log, SendEvent("get", -1, <<CMD_GET>>))
    /\ pc' = AfterSend("get")
    /\ UNCHANGED <<firmware_data, start_address, get_result, num_commands, version, commands,
                   i, chunks, ci, write_results, upload_result, stdout, exception>>

\* mutant: get_command reads on after a failed GET
GetAfterAck_Ignore(ok) == "get_num"

\* where get_command goes after send_message returned ok
GetAfterAck(ok) == IF ok THEN "get_num" ELSE "main_unpack"

\* send_message lines 28-31 and get_command lines 34-35
GetAck ==
    /\ pc = "get_ack"
    /\ \E r \in AckResponses :
        /\ log' = Append(log, RecvEvent("get", -1, r))
        /\ IF RaisesIndexError(r)
           THEN Raise("IndexError") /\ UNCHANGED get_result
           ELSE /\ pc' = GetAfterAck(IsAck(r))
                /\ get_result' = IF GetAfterAck(IsAck(r)) = "main_unpack" THEN "None" ELSE get_result
                /\ UNCHANGED exception
    /\ UNCHANGED <<firmware_data, start_address, num_commands, version, commands,
                   i, chunks, ci, write_results, upload_result, stdout>>

\* the exception of `self.bus.recv(self.TIMEOUT).data[0]`, or "none"
DataZeroRaises(r) ==
    IF ~r.present THEN "AttributeError"
    ELSE IF Len(r.data) = 0 THEN "IndexError" ELSE "none"

\* line 37: num_commands = self.bus.recv(self.TIMEOUT).data[0]
GetNum ==
    /\ pc = "get_num"
    /\ \E r \in NumResponses :
        /\ log' = Append(log, RecvEvent("num", -1, r))
        /\ IF DataZeroRaises(r) # "none"
           THEN Raise(DataZeroRaises(r)) /\ UNCHANGED num_commands
           ELSE /\ num_commands' = r.data[1]
                /\ pc' = "get_version"
                /\ UNCHANGED exception
    /\ UNCHANGED <<firmware_data, start_address, get_result, version, commands,
                   i, chunks, ci, write_results, upload_result, stdout>>

\* line 38: version = self.bus.recv(self.TIMEOUT).data[0]
GetVersion ==
    /\ pc = "get_version"
    /\ \E r \in VersionResponses :
        /\ log' = Append(log, RecvEvent("version", -1, r))
        /\ IF DataZeroRaises(r) # "none"
           THEN Raise(DataZeroRaises(r)) /\ UNCHANGED version
           ELSE /\ version' = r.data[1]
                /\ pc' = "get_commands"
                /\ UNCHANGED exception
    /\ UNCHANGED <<firmware_data, start_address, get_result, num_commands, commands,
                   i, chunks, ci, write_results, upload_result, stdout>>

\* mutant: one enumeration frame too many, range(num_commands + 1)
MoreCommands_OneMore(n, cmds) == Len(cmds) <= n

\* line 39: `for _ in range(num_commands)` has iterations left
MoreCommands(n, cmds) == Len(cmds) < n

\* line 39: one iteration of the list comprehension
GetCommandRecv ==
    /\ pc = "get_commands"
    /\ MoreCommands(num_commands, commands)
    /\ \E r \in CommandResponses :
        /\ log' = Append(log, RecvEvent("command", -1, r))
        /\ IF DataZeroRaises(r) # "none"
           THEN Raise(DataZeroRaises(r)) /\ UNCHANGED commands
           ELSE /\ commands' = Append(commands, r.data[1])
                /\ UNCHANGED <<pc, exception>>
    /\ UNCHANGED <<firmware_data, start_address, get_result, num_commands, version,
                   i, chunks, ci, write_results, upload_result, stdout>>

\* line 41: return version, commands
GetReturn ==
    /\ pc = "get_commands"
    /\ ~MoreCommands(num_commands, commands)
    /\ get_result' = "tuple"
    /\ pc' = "main_unpack"
    /\ UNCHANGED <<firmware_data, start_address, log, num_commands, version, commands,
                   i, chunks, ci, write_results, upload_result, stdout, exception>>

\* ------------------------------------------------------------------- main
\* lines 96-102: version, commands = bootloader.get_command(); unpacking None
\* raises TypeError before the `version is None` test is reached
MainUnpack ==
    /\ pc = "main_unpack"
    /\ IF get_result = "None"
       THEN Raise("TypeError") /\ UNCHANGED stdout
       ELSE /\ UNCHANGED exception
            /\ IF version = -1
               THEN /\ stdout' = Append(stdout, <<"Failed to communicate with bootloader", <<>>>>)
                    /\ pc' = "done"
               ELSE /\ stdout' = stdout \o <<  <<"Bootloader version: ", <<version>>>>,
                                               <<"Supported commands: ", commands>>  >>
                    /\ pc' = "erase_send"
    /\ UNCHANGED <<firmware_data, start_address, log, get_result, num_commands, version,
                   commands, i, chunks, ci, write_results, upload_result>>

\* -------------------------------------------------------- upload_firmware
\* lines 71-72 -> erase_memory line 44 -> send_message lines 25-26
EraseSend ==
    /\ pc = "erase_send"
    /\ log' = Append(log, SendEvent("erase", -1, EraseData(0, PagesToErase(Len(firmware_data)))))
    /\ pc' = AfterSend("erase")
    /\ UNCHANGED <<firmware_data, start_address, get_result, num_commands, version, commands,
                   i, chunks, ci, write_results, upload_result, stdout, exception>>

\* mutant: the erase result is dropped
UploadAfterErase_Ignore(ok) == "write_loop"

\* line 72: where upload_firmware goes after erase_memory returned ok
UploadAfterErase(ok) == IF ok THEN "write_loop" ELSE "main_after_upload"

\* send_message lines 28-31, erase_memory line 45, upload_firmware lines 72-74
EraseAck ==
    /\ pc = "erase_ack"
    /\ \E r \in AckResponses :
        /\ log' = Append(log, RecvEvent("erase", -1, r))
        /\ IF RaisesIndexError(r)
           THEN Raise("IndexError") /\ UNCHANGED <<i, upload_result, stdout>>
           ELSE /\ pc' = UploadAfterErase(IsAck(r))
                /\ IF UploadAfterErase(IsAck(r)) = "write_loop"
                   THEN i' = 0 /\ UNCHANGED <<upload_result, stdout>>
                   ELSE /\ stdout' = Append(stdout, <<"Failed to erase memory", <<>>>>)
                        /\ upload_result' = "False"
                        /\ UNCHANGED i
                /\ UNCHANGED exception
    /\ UNCHANGED <<firmware_data, start_address, get_result, num_commands, version, commands,
                   chunks, ci, write_results>>

\* lines 77-79 -> write_memory lines 48-51 -> send_message lines 25-26
WriteCmdSend ==
    /\ pc = "write_loop"
    /\ i \in Range(Len(firmware_data), BLOCK_SIZE)
    /\ log' = Append(log, SendEvent("write_cmd", i, WriteCmdData(start_address + i, Block(firmware_data, i))))
    /\ pc' = AfterSend("write_cmd")
    /\ UNCHANGED <<firmware_data, start_address, get_result, num_commands, version, commands,
                   i, chunks, ci, write_results, upload_result, stdout, exception>>

\* mutant: only False counts as failure, None passes
Truthy_NotFalse(val) == val # "False"

\* truth value of what write_memory returned ("True", "False" or "None")
Truthy(val) == val = "True"

\* mutant: the loop goes on after a failed block
UploadAfterWrite_Continue(val) == "write_loop"

\* line 79: where upload_firmware goes after write_memory returned val
UploadAfterWrite(val) == IF Truthy(val) THEN "write_loop" ELSE "main_after_upload"

\* mutant: the loop stays on the block it has just written
NextOffset_Retry(off) == off

\* line 77: the offset after off in range(0, len(firmware_data), 256)
NextOffset(off) == off + BLOCK_SIZE

\* write_memory returns val to upload_firmware, lines 79-81 and the loop step
WriteReturns(val) ==
    /\ write_results' = Append(write_results, val)
    /\ pc' = UploadAfterWrite(val)
    /\ IF UploadAfterWrite(val) = "write_loop"
       THEN i' = NextOffset(i) /\ UNCHANGED <<upload_result, stdout>>
       ELSE /\ stdout' = Append(stdout, <<"Failed to write chunk at address", <<start_address + i>>>>)
            /\ upload_result' = "False"
            /\ UNCHANGED i

\* mutant: the command frame's response is read but not used
WriteAfterCmd_Ignore(ok) == "chunk_loop"

\* line 51: where write_memory goes after the command frame's send_message
WriteAfterCmd(ok) == IF ok THEN "chunk_loop" ELSE "return_false"

\* send_message lines 28-31 for the command frame, write_memory lines 51-54
WriteCmdAck ==
    /\ pc = "write_cmd_ack"
    /\ \E r \in AckResponses :
        /\ log' = Append(log, RecvEvent("write_cmd", i, r))
        /\ IF RaisesIndexError(r)
           THEN Raise("IndexError") /\ UNCHANGED <<i, chunks, ci, write_results, upload_result, stdout>>
           ELSE /\ UNCHANGED exception
                /\ IF WriteAfterCmd(IsAck(r)) = "chunk_loop"
                   THEN /\ chunks' = Chunks(Block(firmware_data, i))
                        /\ ci' = 0
                        /\ pc' = "chunk_loop"
                        /\ UNCHANGED <<i, write_results, upload_result, stdout>>
                   ELSE WriteReturns("False") /\ UNCHANGED <<chunks, ci>>
    /\ UNCHANGED <<firmware_data, start_address, get_result, num_commands, version, commands>>

\* lines 55-56 -> send_message lines 25-26: send the next chunk
ChunkSend ==
    /\ pc = "chunk_loop"
    /\ ci < Len(chunks)
    /\ log' = Append(log, SendEvent("chunk", i, chunks[ci + 1]))
    /\ pc' = AfterSend("chunk")
    /\ UNCHANGED <<firmware_data, start_address, get_result, num_commands, version, commands,
                   i, chunks, ci, write_results, upload_result, stdout, exception>>

\* mutant: a chunk's response is read but not used
WriteAfterChunk_Ignore(ok) == "chunk_loop"

\* line 56: where write_memory goes after a chunk's send_message
WriteAfterChunk(ok) == IF ok THEN "chunk_loop" ELSE "return_false"

\* send_message lines 28-31 for a chunk frame, write_memory lines 56-57
ChunkAck ==
    /\ pc = "chunk_ack"
    /\ \E r \in AckResponses :
        /\ log' = Append(log, RecvEvent("chunk", i, r))
        /\ IF RaisesIndexError(r)
           THEN Raise("IndexError") /\ UNCHANGED <<i, ci, write_results, upload_result, stdout>>
           ELSE /\ UNCHANGED exception
                /\ IF WriteAfterChunk(IsAck(r)) = "chunk_loop"
                   THEN /\ ci' = ci + 1
                        /\ pc' = "chunk_loop"
                        /\ UNCHANGED <<i, write_results, upload_result, stdout>>
                   ELSE WriteReturns("False") /\ UNCHANGED ci
    /\ UNCHANGED <<firmware_data, start_address, get_result, num_commands, version, commands, chunks>>

\* mutant: any final frame counts as success
FinalResult_AnyFrame(r) == IF ~r.present THEN "None" ELSE "True"

\* line 60: return response and response.data[0] == 0x79
FinalResult(r) == IF ~r.present THEN "None" ELSE IF r.data[1] = ACK THEN "True" ELSE "False"

\* lines 59-60: after the last chunk, one more receive decides the write
FinalRecv ==
    /\ pc = "chunk_loop"
    /\ ci >= Len(chunks)
    /\ \E r \in AckResponses :
        /\ log' = Append(log, RecvEvent("final", i, r))
        /\ IF RaisesIndexError(r)
           THEN Raise("IndexError") /\ UNCHANGED <<i, write_results, upload_result, stdout>>
           ELSE WriteReturns(FinalResult(r)) /\ UNCHANGED exception
    /\ UNCHANGED <<firmware_data, start_address, get_result, num_commands, version, commands,
                   chunks, ci>>

\* lines 83-84: the loop is exhausted
UploadReturnTrue ==
    /\ pc = "write_loop"
    /\ i \notin Range(Len(firmware_data), BLOCK_SIZE)
    /\ stdout' = Append(stdout, <<"Firmware uploaded successfully", <<>>>>)
    /\ upload_result' = "True"
    /\ pc' = "main_after_upload"
    /\ UNCHANGED <<firmware_data, start_address, log, get_result, num_commands, version,
                   commands, i, chunks, ci, write_results, exception>>

\* ------------------------------------------------------- main, lines 104-108
\* mutant: GO is sent whatever upload_firmware returned
MainAfterUpload_Always(ok) == "go"

\* line 104: the branch main takes on upload_firmware's return value
MainAfterUpload(ok) == IF ok THEN "go" ELSE "failed"

\* lines 105-106 -> go_command lines 63-64 -> send_message lines 25-26
GoSend ==
    /\ pc = "main_after_upload"
    /\ MainAfterUpload(upload_result = "True") = "go"
    /\ stdout' = Append(stdout, <<"Firmware upload completed successfully", <<>>>>)
    /\ log' = Append(log, SendEvent("go", -1, GoData(start_address)))
    /\ pc' = AfterSend("go")
    /\ UNCHANGED <<firmware_data, start_address, get_result, num_commands, version, commands,
                   i, chunks, ci, write_results, upload_result, exception>>

\* send_message lines 28-31 for the GO frame; main drops the result
GoAck ==
    /\ pc = "go_ack"
    /\ \E r \in AckResponses :
        /\ log' = Append(log, RecvEvent("go", -1, r))
        /\ IF RaisesIndexError(r)
           THEN Raise("IndexError")
           ELSE pc' = "done" /\ UNCHANGED exception
    /\ UNCHANGED <<firmware_data, start_address, get_result, num_commands, version, commands,
                   i, chunks, ci, write_results, upload_result, stdout>>

\* lines 107-108
MainUploadFailed ==
    /\ pc = "main_after_upload"
    /\ MainAfterUpload(upload_result = "True") = "failed"
    /\ stdout' = Append(stdout, <<"Firmware upload failed", <<>>>>)
    /\ pc' = "done"
    /\ UNCHANGED <<firmware_data, start_address, log, get_result, num_commands, version,
                   commands, i, chunks, ci, write_results, upload_result, exception>>

Next ==
    \/ GetSend
    \/ GetAck
    \/ GetNum
    \/ GetVersion
    \/ GetCommandRecv
    \/ GetReturn
    \/ MainUnpack
    \/ EraseSend
    \/ EraseAck
    \/ WriteCmdSend
    \/ WriteCmdAck
    \/ ChunkSend
    \/ ChunkAck
    \/ FinalRecv
    \/ UploadReturnTrue
    \/ GoSend
    \/ GoAck
    \/ MainUploadFailed

Spec == Init /\ [][Next]_vars

\* The program is one sequential thread and every bus.recv returns after
\* TIMEOUT at the latest, so a run that can take a step does take it.
FairSpec == Spec /\ WF_vars(Next)

\* ------------------------------------------------ the upload on its own
\* upload_firmware for every image of up to one block and a byte and for the
\* longest image, at start
\* addresses that exercise all four address bytes, entered as main enters it:
\* after a handshake in which the target announced version 0x10, no commands.
UploadLengths == (0..(BLOCK_SIZE + 1)) \cup {MaxLen}
\* 0, 0x08000000, 0x12345678 and 0x7FFFF000
UploadAddresses == {0, DEFAULT_ADDRESS, 305419896, 2147479552}

\* the run after get_command returned and main printed its result, line 104
AfterHandshake ==
    /\ pc = "erase_send"
    /\ log = << SendEvent("get", -1, <<CMD_GET>>), RecvEvent("get", -1, Received(<<ACK>>)),
                RecvEvent("num", -1, Received(<<0>>)), RecvEvent("version", -1, Received(<<16>>)) >>
    /\ get_result = "tuple"
    /\ num_commands = 0
    /\ version = 16
    /\ commands = <<>>
    /\ i = 0
    /\ chunks = <<>>
    /\ ci = 0
    /\ write_results = <<>>
    /\ upload_result = "pending"
    /\ stdout = << <<"Bootloader version: ", <<16>>>>, <<"Supported commands: ", <<>>>> >>
    /\ exception = "none"

InitUpload ==
    /\ firmware_data \in {ReadFile(L) : L \in UploadLengths}
    /\ start_address \in UploadAddresses
    /\ AfterHandshake

NextUpload ==
    \/ EraseSend
    \/ EraseAck
    \/ WriteCmdSend
    \/ WriteCmdAck
    \/ ChunkSend
    \/ ChunkAck
    \/ FinalRecv
    \/ UploadReturnTrue
    \/ GoSend
    \/ GoAck
    \/ MainUploadFailed

SpecUpload == InitUpload /\ [][NextUpload]_vars

\* ------------------------------------------- the erase exchange on its own
\* the first exchange of upload_firmware, lines 67-74, for every image length
\* up to the longest
InitErase ==
    /\ firmware_data \in {ReadFile(L) : L \in 0..MaxLen}
    /\ start_address = DEFAULT_ADDRESS
    /\ AfterHandshake

NextErase ==
    \/ EraseSend
    \/ EraseAck

SpecErase == InitErase /\ [][NextErase]_vars

\* ======================================================== claim vocabulary
\* The outcomes a claim distinguishes, read off the received frame itself.
Acknowledge(r) == r.present /\ Len(r.data) > 0 /\ r.data[1] = 121
\* first byte not 0x79, or no frame within the timeout
NotAcknowledge(r) == ~r.present \/ (Len(r.data) > 0 /\ r.data[1] # 121)

LogIndex == 1..Len(log)
IsSend(n, kind) == log[n].op = "send" /\ log[n].kind = kind
IsRecv(n, kind) == log[n].op = "recv" /\ log[n].kind = kind
SendsOf(kind) == {n \in LogIndex : IsSend(n, kind)}
RecvsOf(kind) == {n \in LogIndex : IsRecv(n, kind)}
\* a WRITE_MEMORY command frame or a data frame
WriteFrames == SendsOf("write_cmd") \cup SendsOf("chunk")
\* the offsets of the WRITE_MEMORY command frames, in the order they were sent
WriteCmdOffsets ==
    LET sel == SelectSeq(log, LAMBDA e : e.op = "send" /\ e.kind = "write_cmd")
    IN  [n \in 1..Len(sel) |-> sel[n].i]
Terminated == pc \in {"done", "crashed"}
Printed(text) == \E n \in 1..Len(stdout) : stdout[n][1] = text
\* big-endian value of the bytes d[a..b]
RECURSIVE BigEndian(_, _, _)
BigEndian(d, a, b) == IF b < a THEN 0 ELSE BigEndian(d, a, b - 1) * 256 + d[b]
\* number of blocks of the image: the least N with 256 * N >= L
NumBlocks == CHOOSE N \in 0..Len(firmware_data) :
                 256 * N >= Len(firmware_data) /\ 256 * N < Len(firmware_data) + 256

\* ---------------------------------------------------------------------- C1
\* C1: if the write of block k is the first write_memory call to return
\* failure, the log holds the command frames of blocks 0..k in ascending
\* order and nothing else, blocks 0..k-1 returned success, no write frame of
\* a later block is ever sent, and upload_firmware returns False.
C1_FirstFailedWriteStopsUpload ==
    \A k \in 0..(Len(write_results) - 1) :
        (write_results[k + 1] # "True" /\ \A j \in 1..k : write_results[j] = "True") =>
            /\ Len(write_results) = k + 1
            /\ WriteCmdOffsets = [n \in 1..(k + 1) |-> 256 * (n - 1)]
            /\ \A n \in WriteFrames : log[n].i <= 256 * k
            /\ upload_result = "False"
            /\ pc \in {"main_after_upload", "done"}

\* block 1 of a three-block image fails after block 0 succeeded; the run ended
C1_Witness ==
    /\ Len(firmware_data) = 513
    /\ Len(write_results) = 2 /\ write_results[1] = "True" /\ write_results[2] # "True"
    /\ pc = "done"

\* ---------------------------------------------------------------------- C2
\* C2: once the response to the ERASE_MEMORY frame is a non-0x79 first byte
\* or a timeout, upload_firmware has returned False and the log never holds
\* a WRITE_MEMORY command frame or a data frame.
C2_FailedEraseSendsNoWrite ==
    (\E n \in RecvsOf("erase") : NotAcknowledge(log[n].response)) =>
        /\ upload_result = "False"
        /\ WriteFrames = {}
        /\ write_results = <<>>

C2_Witness ==
    /\ \E n \in RecvsOf("erase") : NotAcknowledge(log[n].response)
    /\ Len(firmware_data) > 0
    /\ pc = "done"

\* ---------------------------------------------------------------------- C3
\* C3: every WRITE_MEMORY frame in the log comes after the ERASE_MEMORY frame
\* and after the receive that resolved it; the erase frame is sent at most
\* once, exactly once when upload_firmware has returned, and it is 0x44,
\* start_page 0 and num_pages = the least p with 2048 * p >= L, big-endian.
C3_EraseOnceBeforeWrites ==
    /\ Cardinality(SendsOf("erase")) <= 1
    /\ upload_result # "pending" => Cardinality(SendsOf("erase")) = 1
    /\ \A w \in WriteFrames :
          \E e \in SendsOf("erase") : e + 1 < w /\ IsRecv(e + 1, "erase")
    /\ \A e \in SendsOf("erase") :
          LET d == log[e].msg.data
              p == BigEndian(d, 4, 5)
          IN  /\ Len(d) = 5 /\ d[1] = 68
              /\ BigEndian(d, 2, 3) = 0
              /\ 2048 * p >= Len(firmware_data)
              /\ 2048 * p < Len(firmware_data) + 2048

\* a two-page image whose first write frame was sent after the erase exchange
C3_Witness ==
    /\ Len(firmware_data) > 2048
    /\ SendsOf("write_cmd") # {}
    /\ \E e \in SendsOf("erase") : BigEndian(log[e].msg.data, 4, 5) = 2

\* ---------------------------------------------------------------------- C4
\* C4: when the response to the GET frame is a non-0x79 first byte or a
\* timeout, get_command returns None and that receive stays the only receive
\* of the run (the log never grows beyond the GET frame and its response).
C4_FailedGetReadsNoMore ==
    (\E n \in RecvsOf("get") : NotAcknowledge(log[n].response)) =>
        /\ get_result = "None"
        /\ Len(log) = 2
        /\ Cardinality({n \in LogIndex : log[n].op = "recv"}) = 1

\* get_command has returned None on a negative acknowledge and the run ended
C4_Witness ==
    /\ \E n \in RecvsOf("get") : log[n].response = Received(<<31>>)
    /\ get_result = "None"
    /\ Terminated

\* ---------------------------------------------------------------------- C5
\* C5: a run in which every receive timed out ends normally with the line
\* "Failed to communicate with bootloader" printed, and no ERASE_MEMORY,
\* WRITE_MEMORY or GO frame in the log.
C5_SilentTransportReportsHandshakeFailure ==
    (Terminated /\ \A n \in LogIndex : log[n].op = "recv" => log[n].response = None) =>
        /\ pc = "done"
        /\ exception = "none"
        /\ Printed("Failed to communicate with bootloader")
        /\ SendsOf("erase") \cup WriteFrames \cup SendsOf("go") = {}

\* ---------------------------------------------------------------------- C6
\* C6: after an acknowledged GET, a timeout on the num_commands, version or
\* an enumeration receive makes get_command return no result (None) without
\* raising, and no ERASE_MEMORY or WRITE_MEMORY frame is sent.
C6_HandshakeTimeoutIsAFailureValue ==
    (\E n \in RecvsOf("num") \cup RecvsOf("version") \cup RecvsOf("command") :
        log[n].response = None) =>
        /\ get_result = "None"
        /\ exception = "none"
        /\ SendsOf("erase") \cup WriteFrames = {}

\* ------------------------------------------------------ write_memory claims
\* the bus events of the write_memory call for the block at offset off
ChunkSendsOf(off) == {n \in SendsOf("chunk") : log[n].i = off}
RecvsAt(off) == {n \in LogIndex : log[n].op = "recv" /\ log[n].i = off}
\* length of the block at offset off, and the number of 64-byte chunks of n bytes
BlockLen(off) == IF Len(firmware_data) - off < 256 THEN Len(firmware_data) - off ELSE 256
CeilDiv64(n) == CHOOSE c \in 0..n : 64 * c >= n /\ 64 * c < n + 64
\* the write_memory call for the block at offset off has returned
WriteReturned(off) == Len(write_results) > off \div 256

\* ---------------------------------------------------------------------- C7
\* C7 as stated: whatever the response to the WRITE_MEMORY command frame, a
\* write_memory call that has returned has sent all ceil(n/64) chunk frames.
C7_Original ==
    \A n \in RecvsOf("write_cmd") :
        WriteReturned(log[n].i) =>
            Cardinality(ChunkSendsOf(log[n].i)) = CeilDiv64(BlockLen(log[n].i))

\* C7 amended: the response to the WRITE_MEMORY command frame decides whether
\* the data is sent: on a non-0x79 first byte or a timeout write_memory
\* returns False at once, with no chunk frame and no further bus traffic for
\* that block; a chunk frame is sent only after the command frame was
\* acknowledged.
C7_CommandNackAbortsWrite ==
    \A n \in RecvsOf("write_cmd") :
        LET off == log[n].i
        IN  /\ NotAcknowledge(log[n].response) =>
                /\ ChunkSendsOf(off) = {}
                /\ \A m \in LogIndex : m > n => log[m].i # off
                /\ Len(write_results) = off \div 256 + 1
                /\ write_results[off \div 256 + 1] = "False"
            /\ ChunkSendsOf(off) # {} => Acknowledge(log[n].response)

\* the command frame of the second block timed out and the run ended
C7_Witness ==
    /\ \E n \in RecvsOf("write_cmd") : log[n].i = 256 /\ log[n].response = None
    /\ pc = "done"

\* ---------------------------------------------------------------------- C8
\* C8 as stated: no receive happens between two chunk frames of one write,
\* and a write that read its final response performed exactly 2 receives.
C8_Original ==
    /\ \A m, n \in SendsOf("chunk") :
          (m < n /\ log[m].i = log[n].i) =>
              \A k \in (m + 1)..(n - 1) : log[k].op # "recv"
    /\ \A f \in RecvsOf("final") : Cardinality(RecvsAt(log[f].i)) = 2

\* C8 amended: every chunk frame is followed by one receive of its own; the
\* next chunk frame (or, after the last chunk, the final receive) follows only
\* when that receive returned 0x79.  A write that reads its final response
\* has sent ceil(n/64) chunk frames and performed ceil(n/64) + 2 receives, the
\* final one exactly once and last.
C8_EveryChunkIsAnswered ==
    /\ \A n \in SendsOf("chunk") :
          LET off == log[n].i
          IN  /\ n < Len(log) => IsRecv(n + 1, "chunk") /\ log[n + 1].i = off
              /\ (n + 1 < Len(log) /\ log[n + 2].i = off) =>
                    /\ Acknowledge(log[n + 1].response)
                    /\ IsSend(n + 2, "chunk") \/ IsRecv(n + 2, "final")
    /\ \A f \in RecvsOf("final") :
          LET off == log[f].i
          IN  /\ Cardinality(ChunkSendsOf(off)) = CeilDiv64(BlockLen(off))
              /\ Cardinality(RecvsAt(off)) = CeilDiv64(BlockLen(off)) + 2
              /\ \A g \in RecvsOf("final") : log[g].i = off => g = f
              /\ \A m \in RecvsAt(off) : m <= f
              /\ IsRecv(f - 1, "chunk")

\* a full 256-byte block: four chunk frames, each answered, then the final read
C8_Witness ==
    \E f \in RecvsOf("final") :
        /\ Cardinality(ChunkSendsOf(log[f].i)) = 4
        /\ Cardinality(RecvsAt(log[f].i)) = 6

\* ---------------------------------------------------------------------- C9
\* C9 as stated: every write_memory call that returned has read a final
\* response, and it returned success exactly when that frame starts with 0x79
\* (so no earlier response matters).
C9_Original ==
    \A k \in 1..Len(write_results) :
        \E f \in RecvsOf("final") :
            /\ log[f].i = 256 * (k - 1)
            /\ write_results[k] = "True" <=> Acknowledge(log[f].response)

\* C9 amended: write_memory returns success iff the response to the command
\* frame, the response to every chunk frame and the final response all start
\* with 0x79; it returns failure at the first of them that is a timeout or
\* another first byte, and that response is the last one it reads.
C9_SuccessIffAllAcknowledged ==
    \A k \in 1..Len(write_results) :
        LET off == 256 * (k - 1)
            R == RecvsAt(off)
        IN  /\ write_results[k] = "True" <=>
                /\ Cardinality(R) = CeilDiv64(BlockLen(off)) + 2
                /\ \A n \in R : Acknowledge(log[n].response)
            /\ write_results[k] # "True" =>
                \E n \in R : /\ NotAcknowledge(log[n].response)
                             /\ \A m \in R : m <= n
                             /\ \A m \in R : m < n => Acknowledge(log[m].response)

\* one write succeeded on an acknowledged final frame, the next one failed on
\* a final frame that was present but not 0x79
C9_Witness ==
    /\ Len(write_results) = 2 /\ write_results[1] = "True" /\ write_results[2] = "False"
    /\ \E f \in RecvsOf("final") : log[f].i = 256 /\ log[f].response = Received(<<31>>)

\* --------------------------------------------------------------------- C10
\* C10: a GO frame is in the log only when get_command returned a result, the
\* erase was acknowledged, all ceil(L/256) writes returned success and
\* upload_firmware returned True; there is at most one GO frame; it is 0x21
\* followed by the big-endian start address, the address block 0 was written
\* at.  After a failed handshake or upload the log holds no GO frame.
C10_GoOnlyAfterSuccessfulUpload ==
    /\ Cardinality(SendsOf("go")) <= 1
    /\ \A g \in SendsOf("go") :
          /\ get_result = "tuple" /\ upload_result = "True"
          /\ \E e \in RecvsOf("erase") : e < g /\ Acknowledge(log[e].response)
          /\ Len(write_results) = NumBlocks
          /\ \A k \in 1..Len(write_results) : write_results[k] = "True"
          /\ \A w \in WriteFrames : w < g
          /\ Len(log[g].msg.data) = 5 /\ log[g].msg.data[1] = 33
          /\ BigEndian(log[g].msg.data, 2, 5) = start_address
          /\ \A w \in SendsOf("write_cmd") :
                log[w].i = 0 => SubSeq(log[w].msg.data, 2, 5) = SubSeq(log[g].msg.data, 2, 5)
    /\ (get_result = "None" \/ upload_result # "True") => SendsOf("go") = {}

\* the GO frame went out after a three-block upload
C10_Witness ==
    /\ SendsOf("go") # {}
    /\ Len(write_results) = 3
    /\ pc = "done"

\* --------------------------------------------------------------------- C11
\* the payloads of the data frames, concatenated in the order they were sent
RECURSIVE Flatten(_)
Flatten(events) ==
    IF events = <<>> THEN <<>> ELSE Head(events).msg.data \o Flatten(Tail(events))
SentData == Flatten(SelectSeq(log, LAMBDA e : e.op = "send" /\ e.kind = "chunk"))
\* the bytes sent in the data frames of the block at offset off
SentBlock(off) ==
    Flatten(SelectSeq(log, LAMBDA e : e.op = "send" /\ e.kind = "chunk" /\ e.i = off))

\* C11: when upload_firmware returns True it has made exactly ceil(L/256)
\* write_memory calls, the n-th (0-based) for address A + 256*n in ascending
\* order, each block 256 bytes long except the last, which is L mod 256 long
\* (256 when L is a positive multiple of 256), and the data sent, block after
\* block, is the image.
C11_BlocksCoverImage ==
    upload_result = "True" =>
        /\ Len(write_results) = NumBlocks
        /\ WriteCmdOffsets = [n \in 1..NumBlocks |-> 256 * (n - 1)]
        /\ \A w \in SendsOf("write_cmd") :
              LET d == log[w].msg.data
                  last == log[w].i + 256 >= Len(firmware_data)
                  n == IF last /\ Len(firmware_data) % 256 # 0
                       THEN Len(firmware_data) % 256 ELSE 256
              IN  /\ BigEndian(d, 2, 5) = start_address + log[w].i
                  /\ d[6] = n - 1
                  /\ Len(SentBlock(log[w].i)) = n
        /\ SentData = firmware_data

\* a 513-byte image went out as blocks of 256, 256 and 1 bytes
C11_Witness ==
    /\ upload_result = "True"
    /\ Len(firmware_data) = 513
    /\ Len(SentBlock(512)) = 1

\* --------------------------------------------------------------------- C12
\* the data frames of the block at offset off, in the order they were sent
ChunkFramesOf(off) ==
    SelectSeq(log, LAMBDA e : e.op = "send" /\ e.kind = "chunk" /\ e.i = off)

\* C12: a write_memory call that sent all its data frames (it went on to the
\* final receive) was given a block of n bytes, 1 <= n <= 256, and sent
\* exactly ceil(n/64) data frames, each of 64 bytes except the last, which has
\* n mod 64 bytes (64 when n is a multiple of 64); joined in send order they
\* are the block.
C12_ChunksSplitBlock ==
    \A f \in RecvsOf("final") :
        LET off == log[f].i
            n == BlockLen(off)
            cs == ChunkFramesOf(off)
        IN  /\ n >= 1 /\ n <= 256
            /\ Len(cs) = CeilDiv64(n)
            /\ \A k \in 1..Len(cs) :
                  Len(cs[k].msg.data) =
                      IF k < Len(cs) \/ n % 64 = 0 THEN 64 ELSE n % 64
            /\ Flatten(cs) = SubSeq(firmware_data, off + 1, off + n)

\* a 130-byte block went out as frames of 64, 64 and 2 bytes
C12_Witness ==
    /\ Len(firmware_data) = 130
    /\ RecvsOf("final") # {}
    /\ Len(ChunkFramesOf(0)) = 3
    /\ Len(ChunkFramesOf(0)[3].msg.data) = 2

\* --------------------------------------------------------------------- C13
\* C13: a frame in the log is never followed by another frame: the event
\* after a send, once there is one, is the receive of the same send_message
\* call (same frame kind, same block), whether it returned a frame or timed
\* out; and while a frame is unanswered the run is at that receive.
C13_OneOutstandingRequest ==
    /\ \A n \in LogIndex :
          (log[n].op = "send" /\ n < Len(log)) =>
              /\ log[n + 1].op = "recv"
              /\ log[n + 1].kind = log[n].kind
              /\ log[n + 1].i = log[n].i
    /\ (Len(log) > 0 /\ log[Len(log)].op = "send") =>
          pc \in {"get_ack", "erase_ack", "write_cmd_ack", "chunk_ack", "go_ack"}

\* a run through handshake, erase, a four-chunk write and go
C13_Witness ==
    /\ pc = "done"
    /\ SendsOf("go") # {}
    /\ Cardinality(SendsOf("chunk")) = 4

\* --------------------------------------------------------------------- C14
\* the two final states of the upload state machine
Done == upload_result = "True"
Failed == upload_result # "True" /\
          (get_result = "None" \/ upload_result = "False" \/ exception # "none")
\* this step puts an ERASE_MEMORY or WRITE_MEMORY frame on the bus
SendsEraseOrWrite ==
    /\ Len(log') > Len(log)
    /\ log'[Len(log')].op = "send"
    /\ log'[Len(log')].kind \in {"erase", "write_cmd", "chunk"}

\* C14: Done holds only when the erase was acknowledged and each of the
\* ceil(L/256) write_memory calls returned success; Done and Failed exclude
\* each other and are never left; once either holds no step sends an
\* ERASE_MEMORY or WRITE_MEMORY frame.
C14_DoneAndFailedAreFinal ==
    /\ [](Done => /\ \E e \in RecvsOf("erase") : Acknowledge(log[e].response)
                  /\ Len(write_results) = NumBlocks
                  /\ \A k \in 1..Len(write_results) : write_results[k] = "True")
    /\ [](~(Done /\ Failed))
    /\ [][(Done => Done' /\ ~SendsEraseOrWrite) /\ (Failed => Failed' /\ ~SendsEraseOrWrite)]_vars

\* a two-block upload reached Done and the run went on to its end
C14_Witness ==
    /\ Done
    /\ Len(write_results) = 2
    /\ pc = "done"

\* --------------------------------------------------------------------- C15
IsByte(b) == b >= 0 /\ b <= 255

\* C15: every command frame decodes, big-endian, to the values it was built
\* from and has no other byte: ERASE_MEMORY is 5 bytes, 0x44 then start_page
\* (0) and num_pages (ceil(L/2048)) as 16-bit fields; the WRITE_MEMORY command
\* frame is 6 bytes, 0x31, the 32-bit address A + i and the byte len(block)-1;
\* GO is 5 bytes, 0x21 and the 32-bit address A.
C15_FramesDecodeToInputs ==
    /\ \A e \in SendsOf("erase") :
          LET d == log[e].msg.data
          IN  /\ Len(d) = 5 /\ d[1] = 68
              /\ \A k \in 1..5 : IsByte(d[k])
              /\ BigEndian(d, 2, 3) = 0
              /\ 2048 * BigEndian(d, 4, 5) >= Len(firmware_data)
              /\ 2048 * BigEndian(d, 4, 5) < Len(firmware_data) + 2048
    /\ \A w \in SendsOf("write_cmd") :
          LET d == log[w].msg.data
          IN  /\ Len(d) = 6 /\ d[1] = 49
              /\ \A k \in 1..6 : IsByte(d[k])
              /\ BigEndian(d, 2, 5) = start_address + log[w].i
              /\ d[6] = BlockLen(log[w].i) - 1
    /\ \A g \in SendsOf("go") :
          LET d == log[g].msg.data
          IN  /\ Len(d) = 5 /\ d[1] = 33
              /\ \A k \in 1..5 : IsByte(d[k])
              /\ BigEndian(d, 2, 5) = start_address

\* erase, write and go frames of an upload at 0x12345678: all four address
\* bytes differ and the write frame is 31 12 34 56 78 with length byte 0x81
C15_Witness ==
    /\ start_address = 305419896
    /\ Len(firmware_data) = 130
    /\ SendsOf("erase") # {}
    /\ \E w \in SendsOf("write_cmd") : log[w].msg.data = <<49, 18, 52, 86, 120, 129>>
    /\ \E g \in SendsOf("go") : log[g].msg.data = <<33, 18, 52, 86, 120>>

\* --------------------------------------------------------------------- C16
\* C16: the num_pages field of the ERASE_MEMORY frame is ceil(L/2048): 0 for
\* L = 0, 1 for every L in 1..2048, 2 for L = 2049, and in general the least
\* p with 2048 * p >= L.
C16_PagesToEraseIsCeiling ==
    \A e \in SendsOf("erase") :
        LET p == BigEndian(log[e].msg.data, 4, 5)
            L == Len(firmware_data)
        IN  /\ L = 0 => p = 0
            /\ (L >= 1 /\ L <= 2048) => p = 1
            /\ L = 2049 => p = 2
            /\ 2048 * p >= L
            /\ \A q \in 0..(p - 1) : 2048 * q < L

\* the erase of a 2048-byte image asked for one page and was acknowledged
C16_Witness ==
    /\ Len(firmware_data) = 2048
    /\ \E e \in SendsOf("erase") : BigEndian(log[e].msg.data, 4, 5) = 1
    /\ pc = "write_loop"

\* --------------------------------------------------------------------- C17
\* C17: every frame put on the bus, of any kind, has at most 64 payload
\* bytes, arbitration id 0x111 (not extended), and the FD and bit-rate-switch
\* flags set.
C17_FramesFitAndAreAddressed ==
    \A n \in LogIndex :
        log[n].op = "send" =>
            /\ Len(log[n].msg.data) <= 64
            /\ log[n].msg.arbitration_id = 273
            /\ ~log[n].msg.is_extended_id
            /\ log[n].msg.is_fd
            /\ log[n].msg.bitrate_switch

\* a run that sent frames of all five kinds, one of them a full 64-byte chunk
C17_Witness ==
    /\ \A kind \in {"get", "erase", "write_cmd", "chunk", "go"} : SendsOf(kind) # {}
    /\ \E c \in SendsOf("chunk") : Len(log[c].msg.data) = 64

\* --------------------------------------------------------------------- C18
\* the receives get_command makes after the GET exchange
HandshakeReads == RecvsOf("num") \cup RecvsOf("version") \cup RecvsOf("command")

\* C18: get_command never reads more than num_commands enumeration frames;
\* when it returns its result it has read, right after the acknowledged GET,
\* exactly num_commands + 2 frames: the first gives num_commands, the second
\* the returned version, and the next num_commands give the returned command
\* list, first byte by first byte in the order received.
C18_HandshakeReadsExactly ==
    /\ (RecvsOf("num") # {} /\ Len(log[3].response.data) > 0) =>
          Cardinality(RecvsOf("command")) <= log[3].response.data[1]
    /\ get_result = "tuple" =>
          LET n == log[3].response.data[1]
          IN  /\ Acknowledge(log[2].response)
              /\ HandshakeReads = 3..(n + 4)
              /\ IsRecv(3, "num") /\ IsRecv(4, "version")
              /\ \A k \in 1..n : IsRecv(4 + k, "command")
              /\ num_commands = n
              /\ version = log[4].response.data[1]
              /\ commands = [k \in 1..n |-> log[4 + k].response.data[1]]

\* two enumeration frames, 0x31 then 0x00, came back as the list in that order
C18_Witness ==
    /\ get_result = "tuple"
    /\ commands = <<49, 0>>
    /\ version = 16

\* --------------------------------------------------------------------- C19
\* C19: every WRITE_MEMORY command frame is for a block that starts inside
\* the image and has 1..256 bytes, so its length byte len(block) - 1 is in
\* 0..255; for an empty image no write frame is sent and no write_memory call
\* returns.
C19_BlockLengthFitsOneByte ==
    /\ \A w \in SendsOf("write_cmd") :
          LET n == log[w].msg.data[6] + 1
          IN  /\ log[w].i < Len(firmware_data)
              /\ n = BlockLen(log[w].i)
              /\ n >= 1 /\ n <= 256
              /\ log[w].msg.data[6] >= 0 /\ log[w].msg.data[6] <= 255
    /\ Len(firmware_data) = 0 => WriteFrames = {} /\ write_results = <<>>

\* a 257-byte image: one command frame with length byte 255, one with 0
C19_Witness ==
    /\ Len(firmware_data) = 257
    /\ \E w \in SendsOf("write_cmd") : log[w].msg.data[6] = 255
    /\ \E w \in SendsOf("write_cmd") : log[w].msg.data[6] = 0

====
